---- MODULE Spec2Model ----
(***************************************************************************)
(* The extraction route of the Google Maps Business Extractor              *)
(* (src/app/api/extract/route.ts): one POST request, from the credential   *)
(* check to its response, with the three upstream services (geocoding,     *)
(* text search, place details) as nondeterministic responders.             *)
(*                                                                         *)
(* Optional values (string | undefined, number | undefined) are sequences  *)
(* of length at most one: None is undefined, Some(x) is the value x.       *)
(* Strings the code inspects (query, locationBias) are sequences of        *)
(* one-character strings so that trim() and truthiness are computed.       *)
(***************************************************************************)
EXTENDS Integers, Sequences, FiniteSets, TLC

None == <<>>
Some(x) == <<x>>
IsSome(o) == Len(o) = 1
Val(o) == o[1]

Min(a, b) == IF a < b THEN a ELSE b
Max(a, b) == IF a > b THEN a ELSE b

(***************************************************************************)
(* Program constants                                                       *)
(***************************************************************************)
MAX_RESULTS_CAP == 120
PAGE_DELAY_MS == 2000
DEFAULT_MAX_RESULTS == 40
MIN_RESULTS == 1
RADIUS_MIN == 1
RADIUS_MAX == 50000

(***************************************************************************)
(* Bounds of the model                                                     *)
(***************************************************************************)
\* upstream serves at most MaxPages search pages and MaxSummaries summaries
MaxPages == 2
MaxSummaries == 3
\* buildWorkbook on its own is given at most MaxRecords records
MaxRecords == 2
\* the form is submitted at most MaxSubmits times
MaxSubmits == 3
\* a number that need not be whole is counted in units of 1/Denominator
Denominator == 2

(***************************************************************************)
(* Request inputs.  The body of the HTTP request is either not JSON, the   *)
(* JSON value null, or a JSON object with the four optional fields of      *)
(* SearchRequestPayload.                                                   *)
(***************************************************************************)
WhiteSpace == {" "}

Queries == {None, Some(<<>>), Some(<<" ">>), Some(<<" ", "q", " ">>)}
LocationBiases == {None, Some(<<>>), Some(<<"x">>)}
Radii == {None, Some(-5), Some(0), Some(700), Some(50001)}
MaxResultsInputs == {None, Some(0), Some(1), Some(2), Some(121)}

EmptyPayload ==
  [query |-> None, locationBias |-> None, radius |-> None, maxResults |-> None]

\* the requests of the model: every radius with a cap of 1, every maxResults
\* with an in-range radius
SearchRequestPayload ==
  {p \in [query : Queries, locationBias : LocationBiases, radius : Radii,
          maxResults : MaxResultsInputs] :
     p.radius = Some(700) \/ p.maxResults = Some(1)}

Bodies ==
  {[kind |-> "invalid", json |-> EmptyPayload], [kind |-> "null", json |-> EmptyPayload]}
  \cup {[kind |-> "object", json |-> p] : p \in SearchRequestPayload}

ApiKeys == {None, Some(<<>>), Some(<<"k">>)}

\* JavaScript truthiness of string | undefined and of number | undefined
TruthyString(s) == IsSome(s) /\ Val(s) # <<>>
TruthyNumber(n) == IsSome(n) /\ Val(n) # 0

\* String.prototype.trim
RECURSIVE TrimLeft(_)
TrimLeft(s) ==
  IF s # <<>> /\ Head(s) \in WhiteSpace THEN TrimLeft(Tail(s)) ELSE s

RECURSIVE TrimRight(_)
TrimRight(s) ==
  IF s # <<>> /\ s[Len(s)] \in WhiteSpace
  THEN TrimRight(SubSeq(s, 1, Len(s) - 1)) ELSE s

Trim(s) == TrimRight(TrimLeft(s))

(***************************************************************************)
(* The upstream services.  A text search session has one result list, the  *)
(* cycle a, b, a, c, a, b, ... (repeated identifiers included), handed out *)
(* in pages of any size; the n-th response may carry the token TokenOf(n). *)
(***************************************************************************)
IdCycle == <<"a", "b", "a", "c">>
TokenNames == <<"t1", "t2", "t3", "t4", "t5">>

PlaceName(id) ==
  CASE id = "a" -> "Alpha Cafe" [] id = "b" -> "Beta Books" [] OTHER -> "Gamma Gym"
PlaceAddress(id) ==
  CASE id = "a" -> "1 A St" [] id = "b" -> "2 B Ave" [] OTHER -> "3 C Rd"

UpstreamId(i) == IdCycle[((i - 1) % Len(IdCycle)) + 1]
TokenOf(n) == <<TokenNames[n]>>

\* one element of data.results of the text search: more fields than the summary keeps
UpstreamPlace(i) ==
  [place_id |-> UpstreamId(i), name |-> PlaceName(UpstreamId(i)),
   formatted_address |-> PlaceAddress(UpstreamId(i)), rating |-> 4]

\* the page that follows `served` summaries already handed out, of length len
UpstreamPage(served, len) == [k \in 1..len |-> UpstreamPlace(served + k)]

SearchTokens(n) ==
  IF n < MaxPages THEN {None, Some(<<>>), Some(TokenOf(n))} ELSE {None, Some(<<>>)}

\* the responses of the n-th text search call, `served` summaries handed out so far
SearchResponses(n, served) ==
  {[ok |-> FALSE, status |-> "", error_message |-> None, results |-> None,
    next_page_token |-> None]}
  \cup {[ok |-> TRUE, status |-> "REQUEST_DENIED", error_message |-> m,
         results |-> None, next_page_token |-> None]
        : m \in {None, Some(<<"The provided API key is invalid.">>)}}
  \cup {[ok |-> TRUE, status |-> "ZERO_RESULTS", error_message |-> None,
         results |-> None, next_page_token |-> t]
        : t \in SearchTokens(n) \ {Some(<<>>)}}
  \cup {[ok |-> TRUE, status |-> "OK", error_message |-> None,
         results |-> Some(UpstreamPage(served, len)), next_page_token |-> t]
        : len \in 0..(MaxSummaries - served), t \in SearchTokens(n)}

\* a geocoding response; each result has geometry.location or lacks it
GeocodeResponses ==
  {[ok |-> FALSE, status |-> "", results |-> <<>>],
   [ok |-> TRUE, status |-> "ZERO_RESULTS", results |-> <<>>],
   [ok |-> TRUE, status |-> "OK", results |-> <<>>],
   [ok |-> TRUE, status |-> "OK", results |-> <<[location |-> None]>>],
   [ok |-> TRUE, status |-> "OK",
    results |-> <<[location |-> Some([lat |-> 40, lng |-> -74])]>>],
   [ok |-> TRUE, status |-> "OK",
    results |-> <<[location |-> Some([lat |-> 40, lng |-> -74])],
                  [location |-> Some([lat |-> 0, lng |-> 0])]>>]}

\* data.result of the details endpoint for an identifier: optional fields are
\* absent (None) when upstream lacks them; "b" comes back with a place_id of
\* the detail response's own
UpstreamDetail(id) ==
  [name |-> Some(PlaceName(id)),
   formatted_address |-> IF id = "c" THEN None ELSE Some(PlaceAddress(id)),
   formatted_phone_number |-> IF id = "a" THEN Some("(212) 555-0100") ELSE None,
   international_phone_number |->
     IF id \in {"a", "b"} THEN Some("+1 212-555-0100") ELSE None,
   website |-> IF id = "a" THEN Some("https://a.example") ELSE None,
   rating |-> IF id = "a" THEN Some(4) ELSE None,
   user_ratings_total |-> IF id = "a" THEN Some(12) ELSE None,
   types |-> IF id = "c" THEN None ELSE Some(<<"store", "food">>),
   geometry |-> IF id = "c" THEN None ELSE Some([lat |-> 40, lng |-> -74]),
   open_now |-> IF id = "a" THEN Some(TRUE) ELSE IF id = "b" THEN Some(FALSE) ELSE None,
   business_status |-> IF id = "a" THEN Some("OPERATIONAL") ELSE None,
   place_id |-> IF id = "b" THEN Some("detail-id") ELSE None]

DetailResponses(id) ==
  {[ok |-> FALSE, status |-> "", error_message |-> None, result |-> None]}
  \cup {[ok |-> TRUE, status |-> "OVER_QUERY_LIMIT", error_message |-> m,
         result |-> None] : m \in {None, Some(<<"You have exceeded your quota.">>)}}
  \cup {[ok |-> TRUE, status |-> s, error_message |-> None, result |-> None]
        : s \in {"OK", "ZERO_RESULTS", "NOT_FOUND"}}
  \cup {[ok |-> TRUE, status |-> s, error_message |-> None,
         result |-> Some(UpstreamDetail(id))]
        : s \in {"OK", "ZERO_RESULTS", "NOT_FOUND"}}

(***************************************************************************)
(* Pure parts of route.ts                                                  *)
(***************************************************************************)
Digits == <<"0", "1", "2", "3", "4", "5", "6", "7", "8", "9">>

\* String(n) for a non-negative integer: its decimal digits
RECURSIVE DecimalString(_)
DecimalString(n) ==
  IF n < 10 THEN <<Digits[n + 1]>>
  ELSE Append(DecimalString(n \div 10), Digits[(n % 10) + 1])

\* String(n) for any integer
ToSigned(n) == IF n < 0 THEN <<"-">> \o DecimalString(-n) ELSE DecimalString(n)

\* the credential test as GOOGLE_MAPS_API_KEY === undefined: '' passes it
KeyDefined(key) == IsSome(key)

\* !GOOGLE_MAPS_API_KEY is false
KeyConfigured(key) == TruthyString(key)

\* GOOGLE_MAPS_API_KEY ?? ''
KeyParam(key) == IF IsSome(key) THEN Val(key) ELSE <<>>

\* Math.min(Math.max(payload.maxResults ?? 40, 1), MAX_RESULTS_CAP)
ClampMaxResults(mr) ==
  Min(Max(IF IsSome(mr) THEN Val(mr) ELSE DEFAULT_MAX_RESULTS, MIN_RESULTS),
      MAX_RESULTS_CAP)

\* the same expression for a maxResults that need not be a whole number:
\* x and the result are in units of 1/Denominator
ClampNumber(x) ==
  Min(Max(IF IsSome(x) THEN Val(x) ELSE DEFAULT_MAX_RESULTS * Denominator,
          MIN_RESULTS * Denominator),
      MAX_RESULTS_CAP * Denominator)

\* payload.query?.trim()
TrimmedQuery(q) == IF IsSome(q) THEN Some(Trim(Val(q))) ELSE None

\* GeocodeOutcome that also throws when the answer's status is not OK
GeocodeThrowsOnStatus(resp) ==
  IF ~resp.ok \/ resp.status # "OK"
  THEN [throws |-> TRUE, error |-> <<"Failed to resolve location bias">>,
        value |-> None]
  ELSE IF Len(resp.results) = 0
  THEN [throws |-> FALSE, error |-> <<>>, value |-> None]
  ELSE [throws |-> FALSE, error |-> <<>>, value |-> resp.results[1].location]

\* geocodeLocation: what it does with a response
GeocodeOutcome(resp) ==
  IF ~resp.ok
  THEN [throws |-> TRUE, error |-> <<"Failed to resolve location bias">>,
        value |-> None]
  ELSE IF resp.status # "OK" \/ Len(resp.results) = 0
  THEN [throws |-> FALSE, error |-> <<>>, value |-> None]
  ELSE [throws |-> FALSE, error |-> <<>>, value |-> resp.results[1].location]

\* params.set('location', `${location.lat},${location.lng}`) when location is set
LocationParam(loc) ==
  IF IsSome(loc)
  THEN Some(ToSigned(Val(loc).lat) \o <<",">> \o ToSigned(Val(loc).lng))
  ELSE None

\* params.set('radius', String(Math.min(Math.max(radius, 1), 50000)))
\* when location && radius
RadiusParam(loc, rad) ==
  IF IsSome(loc) /\ TruthyNumber(rad)
  THEN Some(DecimalString(Min(Max(Val(rad), RADIUS_MIN), RADIUS_MAX)))
  ELSE None

\* PageTokenParam that never sets pagetoken
OmitsPageToken(token) == None

\* params.set('pagetoken', nextPageToken) when nextPageToken
PageTokenParam(token) == IF TruthyString(token) THEN token ELSE None

SearchParams(q, loc, rad, token, key) ==
  [api |-> "textsearch", query |-> q, key |-> KeyParam(key),
   location |-> LocationParam(loc), radius |-> RadiusParam(loc, rad),
   pagetoken |-> PageTokenParam(token)]

\* SearchStatusAccepted with the status check dropped
AcceptsAnySearchStatus(status) == TRUE

\* ['OK', 'ZERO_RESULTS'].includes(data.status)
SearchStatusAccepted(status) == status \in {"OK", "ZERO_RESULTS"}

\* the error fetchPlaces throws on a response, <<>> when it throws none
SearchError(resp) ==
  IF ~resp.ok THEN <<"Failed to query Google Places search endpoint">>
  ELSE IF ~SearchStatusAccepted(resp.status)
  THEN IF TruthyString(resp.error_message) THEN Val(resp.error_message)
       ELSE <<"Google Places API returned status: ", resp.status>>
  ELSE <<>>

\* (data.results ?? []).map(place => ({place_id, name, formatted_address}))
PlaceSummary(place) ==
  [place_id |-> place.place_id, name |-> place.name,
   formatted_address |-> place.formatted_address]

NewResults(resp) ==
  IF IsSome(resp.results)
  THEN [k \in 1..Len(Val(resp.results)) |-> PlaceSummary(Val(resp.results)[k])]
  ELSE <<>>

\* Array.prototype.slice(0, n) for an integer n >= 0
Slice(s, n) == SubSeq(s, 1, Min(Len(s), n))

\* Accumulate without the slice: the accumulator is never truncated
AccumulateUntruncated(acc, new, cap) == acc \o new

\* Accumulate with the new page put in front of the accumulator
AccumulatePrepends(acc, new, cap) == Slice(new \o acc, cap)

\* collected.concat(newResults).slice(0, maxResults)
Accumulate(acc, new, cap) == Slice(acc \o new, cap)

\* NextPageToken without the cap test: data.next_page_token as it came
NextPageTokenIgnoresCap(token, acc, cap) ==
  IF TruthyString(token) THEN token ELSE None

\* data.next_page_token && collected.length < maxResults
\*   ? data.next_page_token : undefined
NextPageToken(token, acc, cap) ==
  IF TruthyString(token) /\ Len(acc) < cap THEN token ELSE None

\* while (nextPageToken && collected.length < maxResults)
LoopContinues(token, acc, cap) == TruthyString(token) /\ Len(acc) < cap

\* place_id and fields of the details call
DetailParams(placeId, key) ==
  [api |-> "details", place_id |-> placeId, key |-> KeyParam(key),
   fields |-> <<"name", "formatted_address", "formatted_phone_number",
                "international_phone_number", "website", "rating",
                "user_ratings_total", "types", "geometry", "opening_hours",
                "business_status">>]

\* ['OK', 'ZERO_RESULTS', 'NOT_FOUND'].includes(data.status)
DetailStatusAccepted(status) == status \in {"OK", "ZERO_RESULTS", "NOT_FOUND"}

\* fetchPlaceDetails: what it does with a response
DetailOutcome(resp) ==
  IF ~resp.ok
  THEN [throws |-> TRUE, error |-> <<"Failed to fetch place details">>,
        value |-> None]
  ELSE IF ~DetailStatusAccepted(resp.status)
  THEN [throws |-> TRUE,
        error |-> IF TruthyString(resp.error_message) THEN Val(resp.error_message)
                  ELSE <<"Place details lookup failed: ", resp.status>>,
        value |-> None]
  ELSE [throws |-> FALSE, error |-> <<>>, value |-> resp.result]

\* { place_id: place.place_id, ...details }: a place_id of the detail wins
DetailIdWins(details, place) ==
  IF IsSome(details.place_id) THEN details
  ELSE [details EXCEPT !.place_id = Some(place.place_id)]

\* { ...details, place_id: place.place_id }
EnrichedRecord(details, place) == [details EXCEPT !.place_id = Some(place.place_id)]

\* PhoneCell that prefers the international number
PhonePrefersInternational(record) ==
  IF IsSome(record.international_phone_number)
  THEN Val(record.international_phone_number)
  ELSE IF IsSome(record.formatted_phone_number)
  THEN Val(record.formatted_phone_number)
  ELSE ""

\* record.formatted_phone_number ?? record.international_phone_number ?? ''
PhoneCell(record) ==
  IF IsSome(record.formatted_phone_number) THEN Val(record.formatted_phone_number)
  ELSE IF IsSome(record.international_phone_number)
  THEN Val(record.international_phone_number)
  ELSE ""

\* x ?? '' for a text field
OrEmpty(o) == IF IsSome(o) THEN Val(o) ELSE ""

\* open_now === undefined ? '' : open_now ? 'Yes' : 'No'
OpenNowCell(record) ==
  IF ~IsSome(record.open_now) THEN "" ELSE IF Val(record.open_now) THEN "Yes" ELSE "No"

\* Array.prototype.join(', '): the pieces of the joined string
RECURSIVE Join(_)
Join(list) ==
  IF Len(list) = 0 THEN <<>>
  ELSE IF Len(list) = 1 THEN <<list[1]>>
  ELSE <<list[1], ", ">> \o Join(Tail(list))

\* record.types?.join(', ') ?? ''
TypesCell(record) == IF IsSome(record.types) THEN Join(Val(record.types)) ELSE <<>>

\* worksheet.addRow({...}); a numeric cell is Some(n), or None for ''
WorkbookRow(record) ==
  [name |-> OrEmpty(record.name),
   phone |-> PhoneCell(record),
   address |-> OrEmpty(record.formatted_address),
   lat |-> IF IsSome(record.geometry) THEN Some(Val(record.geometry).lat) ELSE None,
   lng |-> IF IsSome(record.geometry) THEN Some(Val(record.geometry).lng) ELSE None,
   rating |-> record.rating,
   reviews |-> record.user_ratings_total,
   website |-> OrEmpty(record.website),
   status |-> OrEmpty(record.business_status),
   open_now |-> OpenNowCell(record),
   types |-> TypesCell(record),
   place_id |-> Val(record.place_id)]

WorkbookColumns ==
  <<"Name", "Phone", "Address", "Latitude", "Longitude", "Rating", "Reviews",
    "Website", "Status", "Open Now", "Types", "Place ID">>

\* buildWorkbook(records)
buildWorkbook(records) ==
  [columns |-> WorkbookColumns, headerBold |-> TRUE,
   rows |-> [k \in 1..Len(records) |-> WorkbookRow(records[k])]]


(***************************************************************************)
(* State of one request                                                    *)
(***************************************************************************)
VARIABLES
  GOOGLE_MAPS_API_KEY, \* process.env.GOOGLE_MAPS_API_KEY
  body,                \* the body of the HTTP request
  pc,                  \* where POST stands (the await it is suspended at)
  payload, query, radius, maxResults, location,   \* locals of POST
  collected, nextPageToken,                       \* locals of fetchPlaces
  places, index, detailedResults,                 \* the enrichment loop
  inFlight,            \* outbound calls issued and not yet answered
  response,            \* what POST returned
  calls,               \* outbound calls and page delays, in the order made
  pages,               \* text search responses, in the order received
  lookups,             \* what each fetchPlaceDetails call came to
  geocoded,            \* the kind of answer geocodeLocation got, if it was called
  detailStatus         \* data.status of the details answer the loop is handling

(***************************************************************************)
(* State of the form of the page (Home)                                    *)
(***************************************************************************)
VARIABLES
  status,              \* useState<Status>
  downloadUrl,         \* useState<string | null>
  fileName,            \* useState('')
  requests,            \* the calls of handleSubmit that have not returned
  submitted            \* how many times the form has been submitted

(***************************************************************************)
(* The clamp of maxResults on its own, over numbers that need not be whole *)
(***************************************************************************)
VARIABLES
  number,              \* payload.maxResults, in units of 1/Denominator
  clamped              \* maxResults of POST (line 221), in the same units

clampVars == <<number, clamped>>

(***************************************************************************)
(* buildWorkbook on its own                                                *)
(***************************************************************************)
VARIABLES
  bookRecords,         \* the argument of buildWorkbook
  workbook             \* the workbook it returns

bookVars == <<bookRecords, workbook>>

serverVars ==
  <<GOOGLE_MAPS_API_KEY, body, pc, payload, query, radius, maxResults, location,
    collected, nextPageToken, places, index, detailedResults, inFlight,
    response, calls, pages, lookups, geocoded, detailStatus>>

clientVars == <<status, downloadUrl, fileName, requests, submitted>>

vars == <<serverVars, clientVars, clampVars, bookVars>>

NoResponse ==
  [kind |-> "none", status |-> 0, error |-> <<>>, workbook |-> None,
   headers |-> None]

\* NextResponse.json({ error }, { status })
JsonError(code, message) ==
  [kind |-> "json", status |-> code, error |-> message, workbook |-> None,
   headers |-> None]

\* an exception that leaves POST: the handler returns no response of its own
Uncaught(message) ==
  [kind |-> "uncaught", status |-> 0, error |-> message, workbook |-> None,
   headers |-> None]

\* values of Date.now() (any two instants)
Timestamps == {1000, 1001}

\* `maps-extract-${Date.now()}.xlsx`
FileName(now) == <<"maps-extract-">> \o DecimalString(now) \o <<".xlsx">>

\* FileResponse whose x-record-count counts the summaries, not the records
CountsSummaries(records, now) ==
  [kind |-> "file", status |-> 200, error |-> <<>>,
   workbook |-> Some(buildWorkbook(records)),
   headers |-> Some([contentDispositionFileName |-> FileName(now),
                     xRecordCount |-> DecimalString(Len(places)),
                     xFileName |-> FileName(now)])]

\* new NextResponse(buffer, { status: 200, headers })
FileResponse(records, now) ==
  [kind |-> "file", status |-> 200, error |-> <<>>,
   workbook |-> Some(buildWorkbook(records)),
   headers |-> Some([contentDispositionFileName |-> FileName(now),
                     xRecordCount |-> DecimalString(Len(records)),
                     xFileName |-> FileName(now)])]

\* request.json().catch(() => ({})): the parsed body, {} when it is not JSON
ParsedBody(b) == IF b.kind = "object" THEN b.json ELSE EmptyPayload

\* summaries upstream has handed out in the responses so far
RECURSIVE Served(_)
Served(resps) ==
  IF resps = <<>> THEN 0
  ELSE (IF IsSome(Head(resps).results) THEN Len(Val(Head(resps).results)) ELSE 0)
       + Served(Tail(resps))

\* the states of the form: Status, lines 5-9
Idle == [state |-> "idle", count |-> 0, message |-> <<>>]
Loading == [state |-> "loading", count |-> 0, message |-> <<>>]
Success(count) == [state |-> "success", count |-> count, message |-> <<>>]
Error(message) == [state |-> "error", count |-> 0, message |-> message]

\* Home, lines 14-20: the form as it is first rendered
HomeInit ==
  /\ status = Idle
  /\ downloadUrl = None
  /\ fileName = <<>>
  /\ requests = {}
  /\ submitted = 0

\* which of the three kinds of geocoding answer resp is: the request failed,
\* the answer has coordinates to give, or it has none
GeocodeAnswer(resp) ==
  IF ~resp.ok THEN "failed"
  ELSE IF resp.status = "OK" /\ resp.results # <<>>
          /\ IsSome(resp.results[1].location)
  THEN "match" ELSE "nomatch"

Init ==
  /\ HomeInit
  /\ number = None
  /\ clamped = None
  /\ bookRecords = <<>>
  /\ workbook = None
  /\ geocoded = "uncalled"
  /\ detailStatus = None
  /\ GOOGLE_MAPS_API_KEY \in ApiKeys
  /\ body \in Bodies
  /\ pc = "entry"
  /\ payload = EmptyPayload
  /\ query = None
  /\ radius = None
  /\ maxResults = 0
  /\ location = None
  /\ collected = <<>>
  /\ nextPageToken = None
  /\ places = <<>>
  /\ index = 0
  /\ detailedResults = <<>>
  /\ inFlight = {}
  /\ response = NoResponse
  /\ calls = <<>>
  /\ pages = <<>>
  /\ lookups = <<>>

\* a fetch that is not awaited: its request stays pending while POST goes on
NotAwaited(pending) == pending

\* await fetch(...): the function resumes once the pending request is answered
Answered(pending) == {}

\* POST, lines 213-216: the credential check
PostEntry ==
  /\ pc = "entry"
  /\ IF ~KeyConfigured(GOOGLE_MAPS_API_KEY)
     THEN /\ response' =
               JsonError(500, <<"GOOGLE_MAPS_API_KEY is not configured on the server.">>)
          /\ pc' = "done"
     ELSE /\ pc' = "json"
          /\ UNCHANGED response
  /\ UNCHANGED <<clientVars, clampVars, bookVars, geocoded, detailStatus, GOOGLE_MAPS_API_KEY, body,
                 payload, query, radius, maxResults,
                 location, collected, nextPageToken, places, index,
                 detailedResults, inFlight, calls, pages, lookups>>

\* POST, lines 218-228: the body is parsed, the query trimmed and checked
ParseBody ==
  /\ pc = "json"
  /\ IF body.kind = "null"
     THEN \* payload is null: payload.query throws a TypeError outside the try
          /\ response' = Uncaught(<<"TypeError">>)
          /\ pc' = "done"
          /\ UNCHANGED <<payload, query, radius, maxResults>>
     ELSE /\ payload' = ParsedBody(body)
          /\ query' = TrimmedQuery(payload'.query)
          /\ radius' = payload'.radius
          /\ maxResults' = ClampMaxResults(payload'.maxResults)
          /\ IF ~TruthyString(query')
             THEN /\ response' = JsonError(400, <<"Query is required.">>)
                  /\ pc' = "done"
             ELSE /\ pc' = IF TruthyString(payload'.locationBias)
                           THEN "geocode" ELSE "search"
                  /\ UNCHANGED response
  /\ UNCHANGED <<clientVars, clampVars, bookVars, geocoded, detailStatus, GOOGLE_MAPS_API_KEY, body,
                 location, collected, nextPageToken,
                 places, index, detailedResults, inFlight, calls, pages, lookups>>

\* POST, lines 265-276: the outer catch turns a thrown Error into a 500
Fail(message) == JsonError(500, message)

\* geocodeLocation, lines 48-56: the geocoding request goes out
GeocodeCall ==
  /\ pc = "geocode"
  /\ LET call == [api |-> "geocode", address |-> Val(payload.locationBias),
                  key |-> KeyParam(GOOGLE_MAPS_API_KEY)]
     IN /\ inFlight' = inFlight \cup {call}
        /\ calls' = Append(calls, call)
  /\ pc' = "geocodeWait"
  /\ UNCHANGED <<clientVars, clampVars, bookVars, geocoded, detailStatus, GOOGLE_MAPS_API_KEY, body,
                 payload, query, radius, maxResults,
                 location, collected, nextPageToken, places, index,
                 detailedResults, response, pages, lookups>>

\* geocodeLocation, lines 58-75, and POST line 228: the geocoding answer
GeocodeReturn ==
  /\ pc = "geocodeWait"
  /\ \E resp \in GeocodeResponses :
       LET outcome == GeocodeOutcome(resp)
       IN /\ geocoded' = GeocodeAnswer(resp)
          /\ IF outcome.throws
             THEN /\ response' = Fail(outcome.error)
                  /\ pc' = "done"
                  /\ UNCHANGED location
             ELSE /\ location' = outcome.value
                  /\ pc' = "search"
                  /\ UNCHANGED response
  /\ inFlight' = Answered(inFlight)
  /\ UNCHANGED <<clientVars, clampVars, bookVars, detailStatus, GOOGLE_MAPS_API_KEY, body,
                 payload, query, radius, maxResults,
                 collected, nextPageToken, places, index, detailedResults,
                 calls, pages, lookups>>

\* fetchPlaces, lines 87-110: one text search request goes out; the history
\* of calls records it when logged
SearchCallOf(logged) ==
  /\ pc = "search"
  /\ LET call == SearchParams(Val(query), location, radius, nextPageToken,
                              GOOGLE_MAPS_API_KEY)
     IN /\ inFlight' = inFlight \cup {call}
        /\ calls' = IF logged THEN Append(calls, call) ELSE calls
  /\ pc' = "searchWait"
  /\ UNCHANGED <<clientVars, clampVars, bookVars, geocoded, detailStatus, GOOGLE_MAPS_API_KEY, body,
                 payload, query, radius, maxResults,
                 location, collected, nextPageToken, places, index,
                 detailedResults, response, pages, lookups>>

SearchCall == SearchCallOf(TRUE)

\* where POST goes once fetchPlaces has returned acc (lines 229-233)
AfterSearch(acc) == IF Len(acc) > 0 THEN "detail" ELSE "build"

\* fetchPlaces, lines 112-139: the answer to a text search request, one of
\* responses; the history of answers records it when logged
SearchReturnFrom(responses, logged) ==
  /\ pc = "searchWait"
  /\ \E resp \in responses :
       /\ pages' = IF logged THEN Append(pages, resp) ELSE pages
       /\ IF SearchError(resp) # <<>>
          THEN /\ response' = Fail(SearchError(resp))
               /\ pc' = "done"
               /\ UNCHANGED <<collected, nextPageToken, places, index>>
          ELSE /\ collected' = Accumulate(collected, NewResults(resp), maxResults)
               /\ nextPageToken' =
                    NextPageToken(resp.next_page_token, collected', maxResults)
               /\ IF TruthyString(nextPageToken')
                  THEN /\ pc' = "delay"
                       /\ UNCHANGED <<places, index>>
                  ELSE IF LoopContinues(nextPageToken', collected', maxResults)
                  THEN /\ pc' = "search"
                       /\ UNCHANGED <<places, index>>
                  ELSE /\ places' = collected'
                       /\ index' = 1
                       /\ pc' = AfterSearch(collected')
               /\ UNCHANGED response
  /\ inFlight' = Answered(inFlight)
  /\ UNCHANGED <<clientVars, clampVars, bookVars, geocoded, detailStatus, GOOGLE_MAPS_API_KEY, body,
                 payload, query, radius, maxResults,
                 location, detailedResults, calls, lookups>>

SearchReturn ==
  SearchReturnFrom(SearchResponses(Len(pages) + 1, Served(pages)), TRUE)

\* fetchPlaces, lines 134-137: the page delay has elapsed
PageDelayOf(logged) ==
  /\ pc = "delay"
  /\ calls' = IF logged THEN Append(calls, [api |-> "delay", ms |-> PAGE_DELAY_MS])
              ELSE calls
  /\ IF LoopContinues(nextPageToken, collected, maxResults)
     THEN /\ pc' = "search"
          /\ UNCHANGED <<places, index>>
     ELSE /\ places' = collected
          /\ index' = 1
          /\ pc' = AfterSearch(collected)
  /\ UNCHANGED <<clientVars, clampVars, bookVars, geocoded, detailStatus, GOOGLE_MAPS_API_KEY, body,
                 payload, query, radius, maxResults,
                 location, collected, nextPageToken, detailedResults, inFlight,
                 response, pages, lookups>>

PageDelay == PageDelayOf(TRUE)

\* POST line 235 and fetchPlaceDetails, lines 143-153: one details request goes out
DetailCall ==
  /\ pc = "detail"
  /\ LET call == DetailParams(places[index].place_id, GOOGLE_MAPS_API_KEY)
     IN /\ inFlight' = inFlight \cup {call}
        /\ calls' = Append(calls, call)
  /\ pc' = "detailWait"
  /\ detailStatus' = None
  /\ UNCHANGED <<clientVars, clampVars, bookVars, geocoded, GOOGLE_MAPS_API_KEY, body,
                 payload, query, radius, maxResults,
                 location, collected, nextPageToken, places, index,
                 detailedResults, response, pages, lookups>>

\* the lookup loop without its try/catch: a lookup error reaches the outer catch
RethrowsDetailError == FALSE

\* POST, lines 234 and 242-244: the try/catch around one lookup swallows its error
CatchesDetailError == TRUE

\* a loop that looks a summary up again when its lookup threw
RetryOnThrow(i, outcome) == IF outcome.throws THEN i ELSE i + 1

\* for (const place of places): the loop moves on whatever the lookup came to
NextIndex(i, outcome) == i + 1

\* what a fetchPlaceDetails call came to
LookupKind(outcome) ==
  IF outcome.throws THEN "threw"
  ELSE IF IsSome(outcome.value) THEN "detail" ELSE "none"

\* fetchPlaceDetails, lines 155-168, and POST, lines 233-245: the answer to a
\* details request, and the step of the loop over places
DetailReturn ==
  /\ pc = "detailWait"
  /\ \E resp \in DetailResponses(places[index].place_id) :
       LET outcome == DetailOutcome(resp)
       IN /\ lookups' = Append(lookups, LookupKind(outcome))
          /\ detailStatus' = IF resp.ok THEN Some(resp.status) ELSE None
          /\ IF outcome.throws /\ ~CatchesDetailError
             THEN /\ response' = Fail(outcome.error)
                  /\ pc' = "done"
                  /\ UNCHANGED <<index, detailedResults>>
             ELSE /\ detailedResults' =
                       IF ~outcome.throws /\ IsSome(outcome.value)
                       THEN Append(detailedResults,
                                   EnrichedRecord(Val(outcome.value), places[index]))
                       ELSE detailedResults
                  /\ index' = NextIndex(index, outcome)
                  /\ pc' = IF index' <= Len(places) THEN "detail" ELSE "build"
                  /\ UNCHANGED response
  /\ inFlight' = Answered(inFlight)
  /\ UNCHANGED <<clientVars, clampVars, bookVars, geocoded, GOOGLE_MAPS_API_KEY, body,
                 payload, query, radius, maxResults,
                 location, collected, nextPageToken, places, calls, pages>>

\* POST, lines 247-264: the workbook is built and returned
Respond ==
  /\ pc = "build"
  /\ \E now \in Timestamps : response' = FileResponse(detailedResults, now)
  /\ pc' = "done"
  /\ detailStatus' = None
  /\ UNCHANGED <<clientVars, clampVars, bookVars, geocoded, GOOGLE_MAPS_API_KEY, body,
                 payload, query, radius, maxResults,
                 location, collected, nextPageToken, places, index,
                 detailedResults, inFlight, calls, pages, lookups>>

Next ==
  \/ PostEntry
  \/ ParseBody
  \/ GeocodeCall
  \/ GeocodeReturn
  \/ SearchCall
  \/ SearchReturn
  \/ PageDelay
  \/ DetailCall
  \/ DetailReturn
  \/ Respond

Spec == Init /\ [][Next]_vars

(***************************************************************************)
(* The same handler against an upstream whose text search never runs out   *)
(* of continuation tokens: every answer may carry one, also an empty or a  *)
(* ZERO_RESULTS page.  It serves MaxSummaries summaries in all.  The       *)
(* histories of search calls and answers are not kept, so that a loop that *)
(* goes round for ever is a cycle of states.                               *)
(***************************************************************************)
EndlessToken == Some(TokenOf(1))

EndlessSearchResponses(acc) ==
  {[ok |-> FALSE, status |-> "", error_message |-> None, results |-> None,
    next_page_token |-> None]}
  \cup {[ok |-> TRUE, status |-> "ZERO_RESULTS", error_message |-> None,
         results |-> None, next_page_token |-> t] : t \in {None, EndlessToken}}
  \cup {[ok |-> TRUE, status |-> "OK", error_message |-> None,
         results |-> Some(UpstreamPage(Len(acc), len)), next_page_token |-> t]
        : len \in 0..(MaxSummaries - Len(acc)), t \in {None, EndlessToken}}

EndlessSearchCall == SearchCallOf(FALSE)
EndlessSearchReturn == SearchReturnFrom(EndlessSearchResponses(collected), FALSE)
EndlessPageDelay == PageDelayOf(FALSE)

EndlessNext ==
  \/ PostEntry
  \/ ParseBody
  \/ GeocodeCall
  \/ GeocodeReturn
  \/ EndlessSearchCall
  \/ EndlessSearchReturn
  \/ EndlessPageDelay
  \/ DetailCall
  \/ DetailReturn
  \/ Respond

\* every call returns and the handler goes on whenever it can
EndlessSpec == Init /\ [][EndlessNext]_vars /\ WF_vars(EndlessNext)

(***************************************************************************)
(* POST up to line 221 for a body whose maxResults is any JSON number, a   *)
(* fraction included, or absent                                            *)
(***************************************************************************)
\* the maxResults of the bodies: absent, or a multiple of 1/Denominator
\* from -2 to MAX_RESULTS_CAP + 2
Numbers ==
  {None} \cup {Some(x) : x \in (-2 * Denominator)..((MAX_RESULTS_CAP + 2) * Denominator)}

\* one request at the entry of POST
OneRequest ==
  /\ Init
  /\ GOOGLE_MAPS_API_KEY = Some(<<"k">>)
  /\ body.kind = "object"
  /\ body.json = [query |-> Some(<<" ", "q", " ">>), locationBias |-> None,
                  radius |-> Some(700), maxResults |-> None]

ClampInit == OneRequest

\* the request arrives with maxResults x
Receive ==
  /\ pc = "entry" /\ number = None /\ clamped = None
  /\ \E x \in Numbers \ {None} : number' = x
  /\ UNCHANGED <<serverVars, clientVars, bookVars, clamped>>

\* POST, line 221
Clamp ==
  /\ pc = "entry" /\ clamped = None
  /\ clamped' = Some(ClampNumber(number))
  /\ UNCHANGED <<serverVars, clientVars, bookVars, number>>

ClampNext == Receive \/ Clamp

ClampSpec == ClampInit /\ [][ClampNext]_vars

(***************************************************************************)
(* buildWorkbook (lines 171-211) applied to any list of at most MaxRecords *)
(* records: a place with each combination of phone numbers present or not *)
(***************************************************************************)
LocalNumbers == {None, Some("(212) 555-0100")}
InternationalNumbers == {None, Some("+1 212-555-0100")}

DetailRecords ==
  {[EnrichedRecord(UpstreamDetail(id), [place_id |-> id])
      EXCEPT !.formatted_phone_number = l, !.international_phone_number = i]
   : id \in {"a", "b", "c"}, l \in LocalNumbers, i \in InternationalNumbers}

\* detailedResults.push(...), line 238: one more record for the workbook
Enrich ==
  /\ workbook = None /\ Len(bookRecords) < MaxRecords
  /\ \E r \in DetailRecords : bookRecords' = Append(bookRecords, r)
  /\ UNCHANGED <<serverVars, clientVars, clampVars, workbook>>

\* buildWorkbook(detailedResults), line 247
Build ==
  /\ workbook = None
  /\ workbook' = Some(buildWorkbook(bookRecords))
  /\ UNCHANGED <<serverVars, clientVars, clampVars, bookRecords>>

BookNext == Enrich \/ Build

BookSpec == OneRequest /\ [][BookNext]_vars

(***************************************************************************)
(* The form of the page (the Home component) against a server that        *)
(* answers each POST /api/extract in any way the route or the network can. *)
(* A call of handleSubmit is suspended at one of its three awaits: fetch,  *)
(* response.json() of an error answer, response.blob() of the workbook.    *)
(* The three state updates after the last await are one render (React 18   *)
(* batches updates made in the same task).                                 *)
(***************************************************************************)
\* Number(s) for a string of decimal digits ('' is 0)
DigitValue(d) == CHOOSE k \in 0..9 : Digits[k + 1] = d

RECURSIVE ParseDecimal(_)
ParseDecimal(s) ==
  IF s = <<>> THEN 0
  ELSE ParseDecimal(SubSeq(s, 1, Len(s) - 1)) * 10 + DigitValue(s[Len(s)])

\* the body of an answer that is not ok: not JSON, or an object with or
\* without an error message
ErrorBodies ==
  {None, Some([error |-> None]), Some([error |-> Some(<<"Query is required.">>)]),
   Some([error |-> Some(<<"Failed to resolve location bias">>)])}

\* the answers to POST /api/extract as the form sees them
ExtractAnswers ==
  {[ok |-> FALSE, json |-> b, xRecordCount |-> None, xFileName |-> None]
     : b \in ErrorBodies}
  \cup {[ok |-> TRUE, json |-> None, xRecordCount |-> c, xFileName |-> f]
        : c \in {None} \cup {Some(DecimalString(n)) : n \in 0..MaxSummaries},
          f \in {None, Some(FileName(1000))}}

NoAnswer == [ok |-> FALSE, json |-> None, xRecordCount |-> None, xFileName |-> None]

\* const isLoading = status.state === 'loading'
isLoading == status.state = "loading"

\* <button type="submit" disabled={isLoading}>
SubmitDisabled == isLoading

\* a handleSubmit that leaves the earlier download link in place
KeepsUrl(url) == url

\* setDownloadUrl(null), line 43
ClearedUrl(url) == None

\* handleSubmit, lines 40-55: the form is submitted and the request goes out
Submit ==
  /\ ~SubmitDisabled
  /\ submitted < MaxSubmits
  /\ submitted' = submitted + 1
  /\ status' = Loading
  /\ downloadUrl' = ClearedUrl(downloadUrl)
  /\ requests' = requests \cup {[id |-> submitted', at |-> "fetch", answer |-> NoAnswer]}
  /\ UNCHANGED <<serverVars, clampVars, bookVars, fileName>>

\* handleSubmit, lines 70-78: the catch block
Caught(r, message) ==
  /\ status' = Error(message)
  /\ requests' = requests \ {r}
  /\ UNCHANGED <<serverVars, clampVars, bookVars, downloadUrl, fileName, submitted>>

\* handleSubmit, line 46: fetch rejects (the network failed)
FetchRejects ==
  \E r \in requests :
    /\ r.at = "fetch"
    /\ Caught(r, <<"Failed to fetch">>)

\* handleSubmit, lines 46-64: the answer arrives; the function goes on to
\* read the error body, or the headers and then the workbook
FetchResolves ==
  \E r \in requests, answer \in ExtractAnswers :
    /\ r.at = "fetch"
    /\ requests' = (requests \ {r}) \cup
         {[r EXCEPT !.at = IF answer.ok THEN "blob" ELSE "json", !.answer = answer]}
    /\ UNCHANGED <<serverVars, clampVars, bookVars, status, downloadUrl, fileName,
                   submitted>>

\* errorPayload?.error ?? 'Unknown error'
ErrorMessage(json) ==
  IF IsSome(json) /\ IsSome(Val(json).error) THEN Val(Val(json).error)
  ELSE <<"Unknown error">>

\* handleSubmit, lines 58-59: the error body has been read (or was not JSON)
JsonSettles ==
  \E r \in requests :
    /\ r.at = "json"
    /\ Caught(r, ErrorMessage(r.answer.json))

\* Number(response.headers.get('x-record-count') ?? '0')
RecordCount(answer) ==
  ParseDecimal(IF IsSome(answer.xRecordCount) THEN Val(answer.xRecordCount)
               ELSE <<"0">>)

\* response.headers.get('x-filename') ?? 'google-maps-data.xlsx'
ResolvedFileName(answer) ==
  IF IsSome(answer.xFileName) THEN Val(answer.xFileName)
  ELSE <<"google-maps-data.xlsx">>

\* handleSubmit, lines 62-69: the workbook has been read; the object URL of
\* the call with identity r.id is made and the form shows the link
BlobResolves ==
  \E r \in requests :
    /\ r.at = "blob"
    /\ downloadUrl' = Some(r.id)
    /\ fileName' = ResolvedFileName(r.answer)
    /\ status' = Success(RecordCount(r.answer))
    /\ requests' = requests \ {r}
    /\ UNCHANGED <<serverVars, clampVars, bookVars, submitted>>

\* handleSubmit, line 64: reading the body fails
BlobRejects ==
  \E r \in requests :
    /\ r.at = "blob"
    /\ Caught(r, <<"network error">>)

HomeNext ==
  \/ Submit
  \/ FetchRejects
  \/ FetchResolves
  \/ JsonSettles
  \/ BlobResolves
  \/ BlobRejects

HomeSpec == OneRequest /\ [][HomeNext]_vars

(***************************************************************************)
(* Vocabulary of the properties                                            *)
(***************************************************************************)
IsSearchCall(c) == c.api = "textsearch"
IsDetailCall(c) == c.api = "details"
IsSearchOrDelay(c) == c.api \in {"textsearch", "delay"}

SearchCalls == SelectSeq(calls, IsSearchCall)
DetailCalls == SelectSeq(calls, IsDetailCall)

Succeeded == pc = "done" /\ response.kind = "file"
Failed(code) == pc = "done" /\ response.kind = "json" /\ response.status = code

\* the data rows of the returned workbook
Rows == Val(response.workbook).rows

PlaceIds(list) == [k \in 1..Len(list) |-> list[k].place_id]

\* the request's maxResults as the handler is meant to use it
RequestedCap ==
  LET N == ParsedBody(body).maxResults
  IN IF ~IsSome(N) THEN 40
     ELSE IF Val(N) < 1 THEN 1
     ELSE IF Val(N) > 120 THEN 120
     ELSE Val(N)

\* the summaries of all the pages received, first page first
RECURSIVE Concatenated(_)
Concatenated(resps) ==
  IF resps = <<>> THEN <<>>
  ELSE (IF IsSome(Head(resps).results) THEN Val(Head(resps).results) ELSE <<>>)
       \o Concatenated(Tail(resps))

RECURSIVE IsSubsequence(_, _)
IsSubsequence(s, t) ==
  IF s = <<>> THEN TRUE
  ELSE IF t = <<>> THEN FALSE
  ELSE IF Head(s) = Head(t) THEN IsSubsequence(Tail(s), Tail(t))
  ELSE IsSubsequence(s, Tail(t))

\* the identifiers of the summaries whose lookup returned a detail
RECURSIVE KeptIds(_, _)
KeptIds(summaries, outcomes) ==
  IF outcomes = <<>> THEN <<>>
  ELSE (IF Head(outcomes) = "detail" THEN <<Head(summaries).place_id>> ELSE <<>>)
       \o KeptIds(Tail(summaries), Tail(outcomes))

(***************************************************************************)
(* C1 as stated: a successful request returns at most N records, N being   *)
(* the maxResults of the request.                                          *)
(***************************************************************************)
C1_AsStated ==
  (Succeeded /\ IsSome(ParsedBody(body).maxResults))
    => Len(Rows) <= Val(ParsedBody(body).maxResults)

(***************************************************************************)
(* C1 (amended): a successful request returns at most as many records as   *)
(* the effective cap, the request's maxResults clamped into [1, 120] (40   *)
(* when absent); the accumulator of the search and the list of enriched    *)
(* records never exceed it either.                                         *)
(***************************************************************************)
C1_RecordCountWithinCap ==
  /\ Len(collected) <= RequestedCap
  /\ Len(detailedResults) <= RequestedCap
  /\ Succeeded => Len(Rows) <= RequestedCap

\* a success whose rows fill the cap while upstream had handed out more
C1_Witness ==
  /\ Succeeded
  /\ Len(Rows) = RequestedCap
  /\ Len(Concatenated(pages)) > RequestedCap

(***************************************************************************)
(* C2: a text search response (first page or continuation) whose status is *)
(* neither OK nor ZERO_RESULTS ends the request with a 500 error response: *)
(* no workbook, no further search call and no detail lookup.               *)
(***************************************************************************)
C2_SearchFailureIsFatal ==
  \A k \in 1..Len(pages) :
    pages[k].status \notin {"OK", "ZERO_RESULTS"}
      => /\ k = Len(pages)
         /\ Len(SearchCalls) = k
         /\ Failed(500)
         /\ response.error # <<>>
         /\ response.workbook = None
         /\ DetailCalls = <<>>
         /\ lookups = <<>>

\* a continuation page is refused after a first page that brought summaries
C2_Witness ==
  /\ Len(pages) = 2
  /\ pages[2].status = "REQUEST_DENIED"
  /\ collected # <<>>
  /\ Failed(500)


(***************************************************************************)
(* C3: a failing detail lookup never aborts the batch.  Whatever lookups   *)
(* fail, the enriched records are exactly the summaries whose lookup       *)
(* returned a detail, in order; and a request that reached enrichment ends *)
(* with status 200 after one lookup for every summary, its rows being      *)
(* those records.                                                          *)
(***************************************************************************)
C3_LookupFailureIsSkipped ==
  /\ Len(lookups) <= Len(places)
  /\ PlaceIds(DetailCalls) = PlaceIds(SubSeq(places, 1, Len(DetailCalls)))
  /\ [k \in 1..Len(detailedResults) |-> Val(detailedResults[k].place_id)]
       = KeptIds(places, lookups)
  /\ (pc = "done" /\ lookups # <<>>)
       => /\ response.kind = "file"
          /\ response.status = 200
          /\ Len(lookups) = Len(places)
          /\ PlaceIds(Rows) = KeptIds(places, lookups)

\* a finished request in which a lookup failed and a later one returned a detail
C3_Witness ==
  /\ Succeeded
  /\ \E i, j \in 1..Len(lookups) :
       i < j /\ lookups[i] = "threw" /\ lookups[j] = "detail"

(***************************************************************************)
(* C4: no fabricated, reordered or duplicated rows.  The Place ID values   *)
(* of the rows of a returned workbook are a subsequence of the identifiers *)
(* the search stage returned, and every one of them is the identifier of a *)
(* summary, never one the detail response brought.                         *)
(***************************************************************************)
C4_RowsTraceToSummaries ==
  Succeeded
    => /\ IsSubsequence(PlaceIds(Rows), PlaceIds(places))
       /\ IsSubsequence(PlaceIds(Rows), PlaceIds(Concatenated(pages)))
       /\ \A k \in 1..Len(Rows) : Rows[k].place_id # "detail-id"

\* a workbook with a row for "b", whose detail carries a place_id of its own,
\* after a summary that gave no row
C4_Witness ==
  /\ Succeeded
  /\ Len(Rows) < Len(places)
  /\ \E k \in 1..Len(Rows) : Rows[k].place_id = "b"
  /\ lookups[1] # "detail"

(***************************************************************************)
(* C5: the first search call carries no continuation token; a further      *)
(* search call is made only if the response before it returned a token and *)
(* the accumulator was still below the cap after truncation, and it        *)
(* carries exactly that token.                                             *)
(***************************************************************************)
C5_ContinuationNeedsTokenAndRoom ==
  /\ Len(SearchCalls) \in {Len(pages), Len(pages) + 1}
  /\ \A k \in 1..Len(SearchCalls) :
       IF k = 1 THEN SearchCalls[k].pagetoken = None
       ELSE /\ pages[k - 1].next_page_token \notin {None, Some(<<>>)}
            /\ SearchCalls[k].pagetoken = pages[k - 1].next_page_token
            /\ Min(Len(Concatenated(SubSeq(pages, 1, k - 1))), RequestedCap)
                 < RequestedCap

\* a second search call has gone out with the token of the first response
C5_Witness ==
  /\ Len(SearchCalls) = 2
  /\ SearchCalls[2].pagetoken = Some(TokenOf(1))

(***************************************************************************)
(* C6: the page delay.  Between two consecutive search calls of a request  *)
(* exactly one wait of PAGE_DELAY_MS takes place, after the response to    *)
(* the earlier call; there is no wait before the first search call or      *)
(* after the last.                                                         *)
(***************************************************************************)
C6_DelayBetweenSearchCalls ==
  LET steps == SelectSeq(calls, IsSearchOrDelay)
  IN /\ \A i \in 1..Len(steps) :
          IF steps[i].api = "delay"
          THEN /\ steps[i].ms = 2000
               /\ i > 1
               /\ steps[i - 1].api = "textsearch"
               /\ IF i < Len(steps) THEN steps[i + 1].api = "textsearch"
                  ELSE pc = "search"
          ELSE i < Len(steps) => steps[i + 1].api = "delay"
     /\ pc = "delay" => inFlight = {} /\ Len(pages) = Len(SearchCalls)

\* a finished request with two search calls and the wait between them
C6_Witness ==
  /\ pc = "done"
  /\ Len(SearchCalls) = 2
  /\ Len(SelectSeq(calls, IsSearchOrDelay)) = 3

(***************************************************************************)
(* C7: what fetchPlaces returns is the first min(cap, total) summaries of  *)
(* the concatenation of the pages fetched, first page first, repeated      *)
(* identifiers included.                                                   *)
(***************************************************************************)
C7_ResultIsPrefixOfPages ==
  LET all == Concatenated(pages)
      want == [k \in 1..Min(RequestedCap, Len(all)) |->
                 [place_id |-> all[k].place_id, name |-> all[k].name,
                  formatted_address |-> all[k].formatted_address]]
  IN /\ pc \notin {"entry", "json"} => collected = want
     /\ (pc \in {"detail", "detailWait", "build"} \/ Succeeded) => places = want

\* two pages that both brought summaries, and a result in which an
\* identifier appears twice
C7_Witness ==
  /\ Succeeded
  /\ Len(pages) = 2
  /\ \A k \in 1..2 : IsSome(pages[k].results) /\ Val(pages[k].results) # <<>>
  /\ PlaceIds(places) = <<"a", "b", "a">>


(***************************************************************************)
(* C8 as stated: for every radius the request supplies, 0 and negative     *)
(* numbers included, every search call made with a bias coordinate sends   *)
(* the radius clamped into [1, 50000]; without a bias coordinate no search *)
(* call sends a radius or a location.                                      *)
(***************************************************************************)
C8_AsStated ==
  \A k \in 1..Len(SearchCalls) :
    LET r == ParsedBody(body).radius
    IN IF IsSome(location)
       THEN /\ SearchCalls[k].location # None
            /\ IsSome(r) =>
                 SearchCalls[k].radius =
                   Some(DecimalString(IF Val(r) < 1 THEN 1
                                      ELSE IF Val(r) > 50000 THEN 50000
                                      ELSE Val(r)))
       ELSE SearchCalls[k].radius = None /\ SearchCalls[k].location = None

(***************************************************************************)
(* C9: without a configured credential every request, whatever its body,   *)
(* ends with a 500 error response carrying an error message; no geocoding, *)
(* search or detail call is made and no workbook is returned.              *)
(***************************************************************************)
C9_MissingCredentialFailsFirst ==
  GOOGLE_MAPS_API_KEY \in {None, Some(<<>>)}
    => /\ calls = <<>>
       /\ inFlight = {}
       /\ pages = <<>> /\ lookups = <<>>
       /\ response.workbook = None
       /\ pc # "entry" => Failed(500) /\ response.error # <<>>

\* the credential is missing and a request with an empty query has been answered
C9_Witness ==
  /\ GOOGLE_MAPS_API_KEY = None
  /\ body.kind = "object" /\ body.json.query = Some(<<>>)
  /\ Failed(500)

(***************************************************************************)
(* C10 as stated (the credential being configured, which C9 puts first): a *)
(* request whose query is missing, empty or only whitespace ends with a    *)
(* 400 error response carrying an error message, and no outbound call is   *)
(* made, a locationBias notwithstanding.                                   *)
(***************************************************************************)
C10_AsStated ==
  LET q == ParsedBody(body).query
      blank == q = None \/ \A i \in 1..Len(Val(q)) : Val(q)[i] = " "
  IN (GOOGLE_MAPS_API_KEY = Some(<<"k">>) /\ blank)
       => /\ calls = <<>>
          /\ inFlight = {}
          /\ pc = "done" => Failed(400) /\ response.error # <<>>


\* C11: a details answer whose status is ZERO_RESULTS or NOT_FOUND counts as
\* "no detail available", whatever else the body holds: the lookup does not
\* throw, it gives no detail, and the summary gets no row.
C11_AsStated ==
  (pc \in {"detail", "build"} /\ IsSome(detailStatus)
     /\ Val(detailStatus) \in {"ZERO_RESULTS", "NOT_FOUND"})
  => /\ lookups[Len(lookups)] = "none"
     /\ Len(detailedResults) = Cardinality({i \in 1..(Len(lookups) - 1) :
                                              lookups[i] = "detail"})


IsGeocodeCall(c) == c.api = "geocode"
GeocodeCalls == SelectSeq(calls, IsGeocodeCall)

\* C12: geocoding fails the request only when its HTTP request fails: then the
\* answer is a 500 and no search or details call was made.  An answer with a
\* non-OK status, without results, or whose first result has no coordinates
\* gives no bias, and the pipeline goes on with unbiased searches (neither
\* location nor radius).  Geocoding is called at most once, first, and only
\* for a non-empty locationBias.
C12_GeocodingFailsOnlyOnTransport ==
  /\ Len(GeocodeCalls) <= 1
  /\ GeocodeCalls # <<>> =>
       /\ IsGeocodeCall(calls[1])
       /\ TruthyString(payload.locationBias)
       /\ calls[1].address = Val(payload.locationBias)
  /\ (pc \notin {"entry", "json", "geocode"} /\ TruthyString(payload.locationBias)
        /\ TruthyString(query))
     => Len(GeocodeCalls) = 1
  /\ geocoded = "uncalled" <=> (GeocodeCalls = <<>> \/ pc = "geocodeWait")
  /\ geocoded = "failed" => Failed(500) /\ Len(calls) = 1
  /\ geocoded = "nomatch" =>
       /\ location = None
       /\ Len(calls) = 1 => pc = "search"
       /\ \A i \in 1..Len(SearchCalls) :
            SearchCalls[i].location = None /\ SearchCalls[i].radius = None
  /\ geocoded = "match" =>
       /\ IsSome(location)
       /\ Len(calls) = 1 => pc = "search"

\* a geocoding answer without coordinates was followed by an unbiased search
\* although the request carried a radius, and the request succeeded with a row
C12_Witness ==
  /\ geocoded = "nomatch"
  /\ Succeeded
  /\ Len(SearchCalls) >= 1
  /\ TruthyNumber(radius)
  /\ Len(Rows) >= 1


\* the two shapes of an answer: the workbook with both metadata fields, or a
\* JSON object with an error message
IsFileShape(r) ==
  /\ r.kind = "file" /\ r.status = 200
  /\ IsSome(r.workbook) /\ IsSome(r.headers)
  /\ r.error = <<>>
IsErrorShape(r) ==
  /\ r.kind = "json" /\ r.status \in {400, 500}
  /\ r.error # <<>>
  /\ r.workbook = None /\ r.headers = None

\* C13: every request ends in exactly one of two shapes: status 200 with the
\* workbook and both metadata fields, or an {error} object with status 400
\* or 500; never a workbook together with an error.
C13_AsStated ==
  pc = "done" => (IsFileShape(response) \/ IsErrorShape(response))


\* the stage of the pipeline an outbound call (or the page delay) belongs to
Stage(c) ==
  IF c.api = "geocode" THEN 1 ELSE IF IsSearchOrDelay(c) THEN 2 ELSE 3

\* C14: the outbound calls of a request are strictly sequential and staged:
\* at most one call is in flight; the geocoding call is answered before the
\* first search call, every search call before the first details call; the
\* details calls go out one at a time in the order of the search results, each
\* answered before the next; the workbook is built after the last lookup.
C14_CallsSequentialAndStaged ==
  /\ Cardinality(inFlight) <= 1
  /\ inFlight # {} <=> pc \in {"geocodeWait", "searchWait", "detailWait"}
  /\ inFlight # {} => inFlight = {calls[Len(calls)]}
  /\ \A i, j \in 1..Len(calls) : i < j => Stage(calls[i]) <= Stage(calls[j])
  /\ Len(pages) = Len(SearchCalls) - (IF pc = "searchWait" THEN 1 ELSE 0)
  /\ Len(lookups) = Len(DetailCalls) - (IF pc = "detailWait" THEN 1 ELSE 0)
  /\ DetailCalls # <<>> =>
       /\ places = collected
       /\ Len(DetailCalls) <= Len(places)
       /\ \A k \in 1..Len(DetailCalls) :
            DetailCalls[k].place_id = places[k].place_id
  /\ response.kind = "file" =>
       /\ inFlight = {}
       /\ Len(lookups) = Len(places)
       /\ Len(DetailCalls) = Len(places)

\* a request that geocoded, searched twice and looked up two summaries
C14_Witness ==
  /\ Succeeded
  /\ Len(GeocodeCalls) = 1
  /\ Len(SearchCalls) >= 2
  /\ Len(DetailCalls) >= 2


\* C15: nothing is retried.  A failed geocoding or search call is the last
\* call of its request; each search call after the first carries the token of
\* the answer before it; and each position of the summary list (repeated
\* identifiers included) gets exactly one details call, whatever the lookup
\* came to.
C15_NoRetries ==
  /\ Len(GeocodeCalls) <= 1
  /\ geocoded = "failed" => pc = "done" /\ Len(calls) = 1
  /\ \A i \in 1..Len(pages) :
       SearchError(pages[i]) # <<>> =>
         /\ i = Len(pages) /\ Len(SearchCalls) = i
         /\ IsSearchCall(calls[Len(calls)])
         /\ Failed(500)
  /\ \A i \in 2..Len(SearchCalls) :
       /\ SearchCalls[i].pagetoken = pages[i - 1].next_page_token
       /\ SearchCalls[i].pagetoken # SearchCalls[i - 1].pagetoken
  /\ Len(DetailCalls) <= Len(places)
  /\ \A k \in 1..Len(DetailCalls) : DetailCalls[k].place_id = places[k].place_id
  /\ Len(lookups) <= Len(DetailCalls)
  /\ Succeeded => Len(DetailCalls) = Len(places) /\ Len(lookups) = Len(places)

\* a success over a list with a repeated identifier where one lookup threw and
\* one found nothing
C15_Witness ==
  /\ Succeeded
  /\ Len(places) = 3 /\ places[1].place_id = places[3].place_id
  /\ Len(DetailCalls) = 3
  /\ \E i, j \in 1..3 : lookups[i] = "threw" /\ lookups[j] = "none"


\* C16: every started request runs to completion: whenever each outbound
\* call returns, also when upstream answers with empty or ZERO_RESULTS pages
\* that carry a token, the pagination loop ends and the handler returns.
C16_AsStated == <>(pc = "done")


IsWhole(x) == x % Denominator = 0
Whole(n) == n * Denominator

\* C17: the cap handed to the search stage is always an integer in
\* [1, 120]: the request's maxResults clamped into that range (below 1
\* becomes 1, above 120 becomes 120), and 40 when maxResults is absent.
C17_AsStated ==
  IsSome(clamped) =>
    /\ IsWhole(Val(clamped))
    /\ Whole(MIN_RESULTS) <= Val(clamped) /\ Val(clamped) <= Whole(MAX_RESULTS_CAP)
    /\ number = None => Val(clamped) = Whole(DEFAULT_MAX_RESULTS)
    /\ IsSome(number) =>
         Val(clamped) = IF Val(number) < Whole(MIN_RESULTS) THEN Whole(MIN_RESULTS)
                        ELSE IF Val(number) > Whole(MAX_RESULTS_CAP)
                        THEN Whole(MAX_RESULTS_CAP)
                        ELSE Val(number)


\* C18: the Phone cell of a row is the place's local-format number when it
\* has one, otherwise its international number, otherwise the empty string.
C18_PhoneFallsBack ==
  IsSome(workbook) =>
    /\ Len(Val(workbook).rows) = Len(bookRecords)
    /\ \A k \in 1..Len(bookRecords) :
         LET local == bookRecords[k].formatted_phone_number
             international == bookRecords[k].international_phone_number
             cell == Val(workbook).rows[k].phone
         IN /\ IsSome(local) => cell = Val(local)
            /\ (local = None /\ IsSome(international)) => cell = Val(international)
            /\ (local = None /\ international = None) => cell = ""

\* a workbook with a row of a place that has both numbers and a row of a
\* place that has neither
C18_Witness ==
  /\ IsSome(workbook)
  /\ Len(bookRecords) = 2
  /\ IsSome(bookRecords[1].formatted_phone_number)
  /\ IsSome(bookRecords[1].international_phone_number)
  /\ Val(workbook).rows[1].phone = "(212) 555-0100"
  /\ bookRecords[2].formatted_phone_number = None
  /\ bookRecords[2].international_phone_number = None
  /\ Val(workbook).rows[2].phone = ""


\* the lookups that returned a detail
DetailsFound == {i \in 1..Len(lookups) : lookups[i] = "detail"}

\* C19: on success x-record-count is the number of data rows of the workbook,
\* which is the number of summaries whose lookup returned a detail, and
\* x-filename is the filename of Content-Disposition.
C19_MetadataMatchesWorkbook ==
  Succeeded =>
    /\ Val(response.headers).xRecordCount = DecimalString(Len(Rows))
    /\ Len(Rows) = Cardinality(DetailsFound)
    /\ Val(response.headers).xFileName =
         Val(response.headers).contentDispositionFileName

\* three summaries, two of them with a detail: the count says 2
C19_Witness ==
  /\ Succeeded
  /\ Len(places) = 3
  /\ Len(Rows) = 2
  /\ Val(response.headers).xRecordCount = <<"2">>
  /\ Val(response.headers).xFileName = <<"maps-extract-", "1", "0", "0", "1", ".xlsx">>


\* C20: in the form, the status goes from idle, success or error to loading
\* on a submit and from loading to success or error when the request
\* settles; a download link is shown only while the status is success (a
\* submit clears it, an error never sets it); the submit button is disabled
\* exactly while the status is loading, so at most one request is in flight.
C20_FormDiscipline ==
  /\ [](downloadUrl # None => status.state = "success")
  /\ [](SubmitDisabled <=> status.state = "loading")
  /\ [](requests # {} <=> status.state = "loading")
  /\ [](Cardinality(requests) <= 1)
  /\ [][submitted' # submitted =>
          /\ status.state \in {"idle", "success", "error"}
          /\ status'.state = "loading"
          /\ downloadUrl' = None]_vars
  /\ [][status' # status =>
          \/ /\ status.state \in {"idle", "success", "error"}
             /\ status'.state = "loading"
             /\ submitted' = submitted + 1
          \/ /\ status.state = "loading"
             /\ status'.state \in {"success", "error"}
             /\ requests' = {}
             /\ status'.state = "error" => downloadUrl' = None]_vars

\* an error after an earlier success: the file name of the success is still
\* held, the link is gone
C20_Witness ==
  /\ status.state = "error"
  /\ submitted >= 2
  /\ fileName # <<>>
  /\ downloadUrl = None
  /\ requests = {}

====
